---- MODULE Spec2Model ----
(***************************************************************************)
(* RECIPE/PINT path decoding: the GF(2) solver (solve_switch_ids), the     *)
(* drivers that feed it (decoding.py from packet logs, decoding_murmur.py  *)
(* from a generation run) and the two ADD/REPLACE/SKIP decision policies.  *)
(*                                                                         *)
(* Python lists are modelled as functions over 0..n-1, so that indices are *)
(* the source's.  A row mask (a Python int used as a bit set) is modelled  *)
(* as the set of its 1-bit positions: (A[r] >> col) & 1 is col \in A[r],   *)
(* A[r] ^= A[row] is the symmetric difference, A[r] == 0 is A[r] = {}.     *)
(***************************************************************************)
EXTENDS Integers, Sequences, FiniteSets, TLC

\* Largest num_hops (k) a run is given.
MaxHops == 2
\* Largest number of packets (equations, m) of a run.
MaxPackets == 2
\* Largest num_hops + num_packets of a run.
MaxSize == 4
\* id_bits of the run (the drivers' --id-bits; identifiers are 0 .. 2^IdBits - 1).
IdBits == 2

\* The 32-bit sample values lie within Spread of 0, of 2^31 and of 2^32 - 1.
Spread == 1

VARIABLES
    pc,          \* position of the driver: "build" (packet loop), "done"
    num_hops,    \* num_hops handed to the simulation and to the solver
    num_packets, \* number of packet logs (decoding.py) or --num-packets (generation)
    switch_id,   \* generation mode: the ground-truth identifiers (<< >> when unknown)
    equations,   \* List[PacketEquation] built so far
    switch_ids,  \* what solve_switch_ids returned: [none, ids]
    warned,      \* bit-plane named by "[warn] System inconsistent at bit ..", or NoRow
    out,         \* what main printed last
    hash_id,     \* decision step: the 32-bit hash of (pktid, hopid)
    add_thr,     \* decision step: apa.add_thresh[idx] / apa.probs_a[idx]
    rep_thr,     \* decision step: apa.replace_thresh[idx] / apa.probs_cum[idx]
    decM,        \* decision taken by decoding_murmur.py on (hash_id, add_thr, rep_thr)
    decS,        \* decision taken by sim_murmur.py on them
    decP,        \* decision taken by decoding.py on them: [add, replace, action]
    prog,        \* the program a packet simulation runs in
    apa,         \* the loaded APA: [max_hops, max_degree, num_degrees]
    args_num_hops,       \* --num-hops (None when decoding.py is not given it)
    max_observed_hopid,  \* decoding.py main: largest hopid of the packet logs
    clamp_reported,      \* the "[warn] ... clamping to" line was printed
    hopid,       \* hop loop: the next hop
    xor_degree,  \* hop loop: xor_degree
    xor_set,     \* hop loop: xor_set
    pint,        \* hop loop, generation mode: pint
    last,        \* the last iteration of the hop loop: what it read and what it did
    taken,       \* the branches the iterations of the hop loop took, in order
    file,        \* the lines of the APA file
    max_degree,  \* max_degree handed to load_apa / MAX_DEGREE of the controller
    loaded,      \* what load_apa returned or raised
    parsed,      \* what parse_monitored returned or raised
    ctl,         \* the controller that parses the APA file
    paths,       \* the packet_*.csv files glob.glob has not yielded yet
    logs         \* load_packet_logs: the dict logs

driverVars == <<pc, num_hops, num_packets, switch_id, equations, switch_ids, warned, out>>
decisionVars == <<hash_id, add_thr, rep_thr, decM, decS, decP>>
simVars == <<prog, apa, args_num_hops, max_observed_hopid, clamp_reported,
             hopid, xor_degree, xor_set, pint, last, taken>>
loadVars == <<file, max_degree, loaded, parsed, ctl>>
logVars == <<paths, logs>>
vars == <<pc, num_hops, num_packets, switch_id, equations, switch_ids, warned, out,
          hash_id, add_thr, rep_thr, decM, decS, decP,
          prog, apa, args_num_hops, max_observed_hopid, clamp_reported,
          hopid, xor_degree, xor_set, pint, last, taken,
          file, max_degree, loaded, parsed, ctl, paths, logs>>

-----------------------------------------------------------------------------
(* Integer helpers: Python's >>, &, ^ and | on non-negative ints.          *)

\* (x >> b) & 1
Bit(x, b) == (x \div (2 ^ b)) % 2

\* x | (1 << b)
SetBit(x, b) == IF Bit(x, b) = 1 THEN x ELSE x + 2 ^ b

RECURSIVE XorInt(_, _)
\* x ^ y
XorInt(x, y) ==
    IF x = 0 THEN y
    ELSE IF y = 0 THEN x
    ELSE (((x % 2) + (y % 2)) % 2) + 2 * XorInt(x \div 2, y \div 2)

\* A ^ B on masks
XorMask(A, B) == (A \ B) \cup (B \ A)

Hops == 0 .. (MaxHops - 1)
Ids == 0 .. (2 ^ IdBits - 1)

-----------------------------------------------------------------------------
(* solve_switch_ids                                                        *)

\* the value None where the source uses it for "no row"
NoRow == 0 - 1

\* mask of one equation: bits i of xor_set with 0 <= i < k
MaskOf(S, k) == {i \in S : 0 <= i /\ i < k}

\* first r in range(row, m) with (A[r] >> col) & 1, else NoRow
FindPivot(A, row, col, m) ==
    LET cand == {r \in row .. (m - 1) : col \in A[r]}
    IN  IF cand = {} THEN NoRow
        ELSE CHOOSE r \in cand : \A q \in cand : r <= q

\* A[row], A[pivot] = A[pivot], A[row]
Swap(f, i, j) == [f EXCEPT ![i] = f[j], ![j] = f[i]]

\* EliminateOthers reducing only the rows below the pivot row
EliminateBelow(st, row, col, m) ==
    [st EXCEPT
        !.A = [r \in 0 .. (m - 1) |->
                 IF r > row /\ col \in st.A[r] THEN XorMask(st.A[r], st.A[row])
                 ELSE st.A[r]],
        !.y = [r \in 0 .. (m - 1) |->
                 IF r > row /\ col \in st.A[r] THEN (st.y[r] + st.y[row]) % 2
                 ELSE st.y[r]]]

\* EliminateOthers leaving the right-hand sides alone
EliminateMasksOnly(st, row, col, m) ==
    [st EXCEPT
        !.A = [r \in 0 .. (m - 1) |->
                 IF r # row /\ col \in st.A[r] THEN XorMask(st.A[r], st.A[row])
                 ELSE st.A[r]]]

\* for r in range(m): if r != row and bit col of A[r]: A[r] ^= A[row]; y[r] ^= y[row]
EliminateOthers(st, row, col, m) ==
    [st EXCEPT
        !.A = [r \in 0 .. (m - 1) |->
                 IF r # row /\ col \in st.A[r] THEN XorMask(st.A[r], st.A[row])
                 ELSE st.A[r]],
        !.y = [r \in 0 .. (m - 1) |->
                 IF r # row /\ col \in st.A[r] THEN (st.y[r] + st.y[row]) % 2
                 ELSE st.y[r]]]

\* SwapIn leaving the right-hand sides where they were
SwapMasksOnly(st, col, pivot) ==
    [st EXCEPT !.A = Swap(st.A, st.row, pivot),
               !.pivot_row_for_col[col] = st.row]

\* swap the pivot row into position row and record it as the pivot of col
SwapIn(st, col, pivot) ==
    [st EXCEPT !.A = Swap(st.A, st.row, pivot),
               !.y = Swap(st.y, st.row, pivot),
               !.pivot_row_for_col[col] = st.row]

\* row += 1
Advance(st) == [st EXCEPT !.row = st.row + 1]

RECURSIVE Eliminate(_, _, _, _)
\* "if row == m: break" at the end of an iteration that found a pivot
AfterPivot(st, col, k, m) ==
    IF st.row = m THEN st ELSE Eliminate(st, col + 1, k, m)

\* one iteration of "for col in range(k)", given what the pivot search found
EliminateColumn(st, col, k, m, pivot) ==
    IF pivot = NoRow THEN Eliminate(st, col + 1, k, m)
    ELSE AfterPivot(Advance(EliminateOthers(SwapIn(st, col, pivot), st.row, col, m)),
                    col, k, m)

\* the loop "for col in range(k)" from column col on; st = [A, y, pivot_row_for_col, row]
Eliminate(st, col, k, m) ==
    IF col >= k THEN st
    ELSE EliminateColumn(st, col, k, m, FindPivot(st.A, st.row, col, m))

\* A, y, pivot_row_for_col and row of one bit-plane before elimination
PlaneSystem(eqs, k, bit, m) ==
    [A |-> [r \in 0 .. (m - 1) |-> MaskOf(eqs[r + 1].xor_set, k)],
     y |-> [r \in 0 .. (m - 1) |-> Bit(eqs[r + 1].final_pint, bit)],
     pivot_row_for_col |-> [c \in 0 .. (k - 1) |-> NoRow],
     row |-> 0]

\* one bit-plane after the elimination loop
PlaneAfterElimination(eqs, k, bit) ==
    Eliminate(PlaneSystem(eqs, k, bit, Len(eqs)), 0, k, Len(eqs))

\* Inconsistent looking at the last row only
InconsistentLastRow(st, m) == st.A[m - 1] = {} /\ st.y[m - 1] = 1

\* "for r in range(m): if A[r] == 0 and y[r] == 1"
Inconsistent(st, m) == \E r \in 0 .. (m - 1) : st.A[r] = {} /\ st.y[r] = 1

\* pivot_row_for_col[col], as x_bits reads it
PivotRowOf(st, col) == st.pivot_row_for_col[col]

\* XBits without the "r != -1" test: y[-1] is the last row
XBitsUnguarded(st, k) ==
    [col \in 0 .. (k - 1) |->
        IF PivotRowOf(st, col) # NoRow THEN st.y[PivotRowOf(st, col)] % 2
        ELSE st.y[Cardinality(DOMAIN st.y) - 1] % 2]

\* x_bits of a plane
XBits(st, k) ==
    [col \in 0 .. (k - 1) |->
        IF PivotRowOf(st, col) # NoRow THEN st.y[PivotRowOf(st, col)] % 2 ELSE 0]

\* Accumulate assigning 1 << bit instead of OR-ing it in
AccumulateAssign(ids, x_bits, bit, k) ==
    [i \in 0 .. (k - 1) |-> IF x_bits[i] = 1 THEN 2 ^ bit ELSE ids[i]]

\* switch_ids[i] |= (1 << bit) for the i with x_bits[i]
Accumulate(ids, x_bits, bit, k) ==
    [i \in 0 .. (k - 1) |-> IF x_bits[i] = 1 THEN SetBit(ids[i], bit) ELSE ids[i]]

\* ReturnNone handing back the planes solved so far
ReturnPartial(ids, bit) == [none |-> FALSE, ids |-> ids, warn |-> bit]

\* the value returned by "return None" in plane bit, after the warning naming bit
ReturnNone(ids, bit) == [none |-> TRUE, ids |-> << >>, warn |-> bit]

RECURSIVE SolvePlanes(_, _, _, _, _)
\* the rest of one iteration of "for bit in range(id_bits)", st being the eliminated plane
SolvePlane(eqs, k, id_bits, bit, ids, st) ==
    IF Inconsistent(st, Len(eqs)) THEN ReturnNone(ids, bit)
    ELSE SolvePlanes(eqs, k, id_bits, bit + 1, Accumulate(ids, XBits(st, k), bit, k))

\* the loop "for bit in range(id_bits)" from plane bit on
SolvePlanes(eqs, k, id_bits, bit, ids) ==
    IF bit >= id_bits THEN [none |-> FALSE, ids |-> ids, warn |-> NoRow]
    ELSE SolvePlane(eqs, k, id_bits, bit, ids, PlaneAfterElimination(eqs, k, bit))

\* if m == 0: return None
EmptyGuard(eqs) == Len(eqs) = 0

\* [none, ids, warn]: none = TRUE is the return value None; warn is the plane the
\* warning printed names, NoRow when nothing was printed
solve_switch_ids(eqs, k, id_bits) ==
    IF EmptyGuard(eqs) THEN [none |-> TRUE, ids |-> << >>, warn |-> NoRow]
    ELSE SolvePlanes(eqs, k, id_bits, 0, [i \in 0 .. (k - 1) |-> 0])

-----------------------------------------------------------------------------
(* The hop loop of one packet.  Which of ADD / REPLACE / SKIP a hop takes   *)
(* is decided by the hash and the APA cell, which are inputs of a run: the  *)
(* packet loop below is given the decision of every hop (a hop the loop     *)
(* breaks at, and every hop after it, acts like SKIP).                      *)

Actions == {"ADD", "REPLACE", "SKIP"}

\* ReconstructHop whose REPLACE inserts the hop and keeps the others
ReconstructHopReplaceKeeps(S, hop, d) ==
    IF d = "ADD"
    THEN IF hop \in S THEN S \ {hop} ELSE S \cup {hop}
    ELSE IF d = "REPLACE" THEN S \cup {hop}
    ELSE S

\* decoding.py: the body of "for hopid in range(num_hops)" once the decision is taken
ReconstructHop(S, hop, d) ==
    IF d = "ADD"
    THEN IF hop \in S THEN S \ {hop} ELSE S \cup {hop}
    ELSE IF d = "REPLACE" THEN {hop}
    ELSE S

RECURSIVE ReconstructHops(_, _, _, _)
\* decoding.py: the hop loop from hop hopid on
ReconstructHops(trace, hop, k, S) ==
    IF hop >= k THEN S
    ELSE ReconstructHops(trace, hop + 1, k, ReconstructHop(S, hop, trace[hop]))

\* SimulateHop whose REPLACE XORs the identifier in instead of resetting pint
SimulateHopXorOnReplace(st, hop, d, ids) ==
    IF d = "ADD"
    THEN [xor_set |-> st.xor_set \cup {hop}, pint |-> XorInt(st.pint, ids[hop])]
    ELSE IF d = "REPLACE"
         THEN [xor_set |-> {hop}, pint |-> XorInt(st.pint, ids[hop])]
    ELSE st

\* SimulateHop whose REPLACE resets pint and keeps the hops of xor_set
SimulateHopReplaceKeepsSet(st, hop, d, ids) ==
    IF d = "ADD"
    THEN [xor_set |-> st.xor_set \cup {hop}, pint |-> XorInt(st.pint, ids[hop])]
    ELSE IF d = "REPLACE" THEN [xor_set |-> st.xor_set \cup {hop}, pint |-> ids[hop]]
    ELSE st

\* decoding_murmur.py: the body of the hop loop; st = [xor_set, pint]
SimulateHop(st, hop, d, ids) ==
    IF d = "ADD"
    THEN [xor_set |-> st.xor_set \cup {hop}, pint |-> XorInt(st.pint, ids[hop])]
    ELSE IF d = "REPLACE" THEN [xor_set |-> {hop}, pint |-> ids[hop]]
    ELSE st

RECURSIVE SimulateHops(_, _, _, _, _)
\* decoding_murmur.py: the hop loop from hop hopid on
SimulateHops(trace, hop, k, st, ids) ==
    IF hop >= k THEN st
    ELSE SimulateHops(trace, hop + 1, k, SimulateHop(st, hop, trace[hop], ids), ids)

Traces(k) == [0 .. (k - 1) -> Actions]

-----------------------------------------------------------------------------
(* The drivers                                                             *)

NotSolved == [none |-> TRUE, ids |-> << >>]

\* what main prints once solve_switch_ids has returned
MainReport(ret) == IF ret.none THEN "could_not_solve" ELSE "path_complete"

\* decoding.py has not decided yet
NoDecisionP == [add |-> "", replace |-> "", action |-> ""]

\* no iteration of the hop loop has run
NoStep == [act |-> "", hop |-> 0, idx |-> 0, deg |-> 0, set |-> {}, pint |-> 0]

\* no APA is loaded
NoApa == [max_hops |-> 0, max_degree |-> 1, num_degrees |-> << >>]

\* no packet is being simulated hop by hop
NoPacket ==
    /\ prog = "" /\ apa = NoApa /\ args_num_hops = 0 /\ max_observed_hopid = 0
    /\ clamp_reported = FALSE
    /\ hopid = 0 /\ xor_degree = 0 /\ xor_set = {} /\ pint = 0 /\ last = NoStep
    /\ taken = << >>

\* load_apa has not been called
NotLoaded == [err |-> "not_called"]

\* parse_monitored has not been called
NotParsed == [err |-> "not_called"]

\* no APA file is being loaded
NoApaFile ==
    file = << >> /\ max_degree = 0 /\ loaded = NotLoaded /\ parsed = NotParsed /\ ctl = ""

\* no packet log file is being loaded
NoLogFiles == paths = << >> /\ logs = << >>

InitDriver ==
    /\ pc = "build"
    /\ num_hops \in 0 .. MaxHops
    /\ num_packets \in 0 .. MaxPackets
    /\ num_hops + num_packets <= MaxSize
    /\ equations = << >>
    /\ switch_ids = NotSolved
    /\ warned = NoRow
    /\ out = ""
    /\ hash_id = <<0, 0>> /\ add_thr = <<0, 0>> /\ rep_thr = <<0, 0>>
    /\ decM = "" /\ decS = "" /\ decP = NoDecisionP
    /\ NoPacket /\ NoApaFile /\ NoLogFiles

\* decoding.py main: the packet logs are loaded, nothing is reconstructed yet
Init ==
    /\ InitDriver
    /\ switch_id = << >>

\* decoding_murmur.py main: the identifiers of the run are drawn
InitGen ==
    /\ InitDriver
    /\ switch_id \in [0 .. (num_hops - 1) -> Ids]

\* decoding.py main: "if not logs: ... return"
NoLogs ==
    /\ pc = "build"
    /\ num_packets = 0
    /\ pc' = "done"
    /\ out' = "no_logs"
    /\ UNCHANGED <<num_hops, num_packets, switch_id, equations, switch_ids, warned>>
    /\ UNCHANGED decisionVars
    /\ UNCHANGED <<simVars, loadVars, logVars>>

\* decoding.py reconstruct_xor_sets: one iteration of the loop over the packet logs
ReconstructPacket ==
    /\ pc = "build"
    /\ Len(equations) < num_packets
    /\ \E final_pint \in Ids, trace \in Traces(num_hops) :
          equations' = Append(equations,
                              [pktid |-> Len(equations),
                               final_pint |-> final_pint,
                               xor_set |-> ReconstructHops(trace, 0, num_hops, {})])
    /\ UNCHANGED <<pc, num_hops, num_packets, switch_id, switch_ids, warned, out>>
    /\ UNCHANGED decisionVars
    /\ UNCHANGED <<simVars, loadVars, logVars>>

\* decoding_murmur.py simulate_xor_degree_distribution: one iteration of the packet loop
SimulatePacket ==
    /\ pc = "build"
    /\ Len(equations) < num_packets
    /\ \E trace \in Traces(num_hops) :
          LET st == SimulateHops(trace, 0, num_hops, [xor_set |-> {}, pint |-> 0], switch_id)
          IN  equations' = Append(equations,
                                  [pktid |-> Len(equations),
                                   final_pint |-> st.pint,
                                   xor_set |-> st.xor_set])
    /\ UNCHANGED <<pc, num_hops, num_packets, switch_id, switch_ids, warned, out>>
    /\ UNCHANGED decisionVars
    /\ UNCHANGED <<simVars, loadVars, logVars>>

\* main: solve the equations and report
MainSolve ==
    /\ pc = "build"
    /\ Len(equations) = num_packets
    /\ LET ret == solve_switch_ids(equations, num_hops, IdBits)
       IN  /\ switch_ids' = [none |-> ret.none, ids |-> ret.ids]
           /\ warned' = ret.warn
           /\ out' = MainReport(ret)
    /\ pc' = "done"
    /\ UNCHANGED <<num_hops, num_packets, switch_id, equations>>
    /\ UNCHANGED decisionVars
    /\ UNCHANGED <<simVars, loadVars, logVars>>

\* decoding.py main, step 4: reached only when there are logs
SolveLogs == num_packets > 0 /\ MainSolve

\* decoding_murmur.py main, step 4
SolveGenerated == MainSolve

Next == NoLogs \/ ReconstructPacket \/ SolveLogs

Spec == Init /\ [][Next]_vars

NextGen == SimulatePacket \/ SolveGenerated

SpecGen == InitGen /\ [][NextGen]_vars

-----------------------------------------------------------------------------
(* 32-bit unsigned values.  A value v is the pair <<v >> 16, v & 0xFFFF>>   *)
(* of its 16-bit halves, so that all 32 bits are kept.                     *)

Half == 2 ^ 16

\* x & 0xFFFFFFFF
Mask32(x) == <<x[1] % Half, x[2] % Half>>

\* x < y on Python ints holding 32-bit values
Lt32(x, y) == x[1] < y[1] \/ (x[1] = y[1] /\ x[2] < y[2])

\* (x - y) & 0xFFFFFFFF
Sub32(x, y) ==
    IF x[2] >= y[2]
    THEN <<(x[1] - y[1] + Half) % Half, x[2] - y[2]>>
    ELSE <<(x[1] - y[1] - 1 + Half) % Half, x[2] - y[2] + Half>>

\* (x >> 31) & 1
_sign_bit(x) == (x[1] \div (2 ^ 15)) % 2

\* the add decision reading only the sign of the subtraction hash - a_prob
AddBySubtractionSign(hash, a_prob) ==
    _sign_bit(Sub32(Mask32(hash), Mask32(a_prob))) = 1

\* decoding.py _p4_add_decision
_p4_add_decision(hash, a_prob) ==
    LET h == Mask32(hash)
        a == Mask32(a_prob)
        res_sign == _sign_bit(Sub32(Mask32(hash), Mask32(a_prob)))
        msb == IF (_sign_bit(h) = 0 /\ _sign_bit(a) = 0) \/ (_sign_bit(h) = 1 /\ _sign_bit(a) = 1)
               THEN 1 ELSE 0
    IN  (_sign_bit(h) = 0 /\ _sign_bit(a) = 1) \/ (msb = 1 /\ res_sign = 1)

\* the add rule applied to the subtraction cum_prob - hash
ReplaceBySubtraction(hash, cum_prob) ==
    LET h == Mask32(hash)
        c == Mask32(cum_prob)
        res_sign == _sign_bit(Sub32(Mask32(cum_prob), Mask32(hash)))
    IN  (_sign_bit(c) = 0 /\ _sign_bit(h) = 1) \/ (_sign_bit(c) = _sign_bit(h) /\ res_sign = 1)

\* decoding.py _p4_replace_decision (res is computed there and never read)
_p4_replace_decision(hash, cum_prob) ==
    LET h == Mask32(hash)
        c == Mask32(cum_prob)
        msb_r == IF (_sign_bit(c) = 0 /\ _sign_bit(h) = 0) \/ (_sign_bit(c) = 1 /\ _sign_bit(h) = 1)
                 THEN 1 ELSE 0
    IN  (_sign_bit(h) = 0 /\ _sign_bit(c) = 0) \/ (msb_r = 1 /\ _sign_bit(c) = 1)

\* decoding.py reconstruct_xor_sets: the branch taken on (hash_id, a_prob, cum_prob);
\* replace is "" when _p4_replace_decision is not called
P4Decision(hash, a_prob, cum_prob) ==
    IF _p4_add_decision(hash, a_prob)
    THEN [add |-> "T", replace |-> "", action |-> "ADD"]
    ELSE IF _p4_replace_decision(hash, cum_prob)
         THEN [add |-> "F", replace |-> "T", action |-> "REPLACE"]
         ELSE [add |-> "F", replace |-> "F", action |-> "SKIP"]

\* MurmurDecision testing the REPLACE condition first
MurmurReplaceFirst(hash, add, rep) ==
    IF Lt32(rep, Mask32(hash)) THEN "REPLACE"
    ELSE IF Lt32(Mask32(hash), add) THEN "ADD"
    ELSE "SKIP"

\* MurmurDecision with hash_id <= add_thr
MurmurAddInclusive(hash, add, rep) ==
    IF Lt32(Mask32(hash), add) \/ Mask32(hash) = add THEN "ADD"
    ELSE IF Lt32(rep, Mask32(hash)) THEN "REPLACE"
    ELSE "SKIP"

\* decoding_murmur.py simulate_xor_degree_distribution: the branch taken
MurmurDecision(hash, add, rep) ==
    IF Lt32(Mask32(hash), add) THEN "ADD"
    ELSE IF Lt32(rep, Mask32(hash)) THEN "REPLACE"
    ELSE "SKIP"

\* sim_murmur.py simulate_xor_degree_distribution: the branch taken
SimDecision(hash, add, rep) ==
    IF Lt32(Mask32(hash), add) THEN "ADD"
    ELSE IF Lt32(rep, Mask32(hash)) THEN "REPLACE"
    ELSE "SKIP"

\* 32-bit values around 0, 2^31 and 2^32 - 1
U32Samples ==
    {<<0, i>> : i \in 0 .. Spread}
    \cup {<<2 ^ 15 - 1, Half - i>> : i \in 1 .. Spread}
    \cup {<<2 ^ 15, i>> : i \in 0 .. (Spread - 1)}
    \cup {<<Half - 1, Half - 1 - i>> : i \in 0 .. Spread}

\* one hop of one packet: the hash and the APA cell are read
InitDecision ==
    /\ hash_id \in U32Samples
    /\ add_thr \in U32Samples
    /\ rep_thr \in U32Samples
    /\ decM = "" /\ decS = "" /\ decP = NoDecisionP
    /\ pc = "done" /\ num_hops = 0 /\ num_packets = 0 /\ switch_id = << >>
    /\ equations = << >> /\ switch_ids = NotSolved /\ warned = NoRow /\ out = ""
    /\ NoPacket /\ NoApaFile /\ NoLogFiles

\* decoding_murmur.py decides the hop
DecideMurmur ==
    /\ decM = ""
    /\ decM' = MurmurDecision(hash_id, add_thr, rep_thr)
    /\ UNCHANGED <<hash_id, add_thr, rep_thr, decS, decP>>
    /\ UNCHANGED driverVars
    /\ UNCHANGED <<simVars, loadVars, logVars>>

\* sim_murmur.py decides the hop
DecideSim ==
    /\ decS = ""
    /\ decS' = SimDecision(hash_id, add_thr, rep_thr)
    /\ UNCHANGED <<hash_id, add_thr, rep_thr, decM, decP>>
    /\ UNCHANGED driverVars
    /\ UNCHANGED <<simVars, loadVars, logVars>>

\* decoding.py decides the hop
DecideP4 ==
    /\ decP = NoDecisionP
    /\ decP' = P4Decision(hash_id, add_thr, rep_thr)
    /\ UNCHANGED <<hash_id, add_thr, rep_thr, decM, decS>>
    /\ UNCHANGED driverVars
    /\ UNCHANGED <<simVars, loadVars, logVars>>

NextDecision == DecideMurmur \/ DecideSim \/ DecideP4

SpecDecision == InitDecision /\ [][NextDecision]_vars

-----------------------------------------------------------------------------
(* One packet, hop by hop: the driver chooses num_hops, then the hop loop  *)
(* of reconstruct_xor_sets (decoding.py) or of                             *)
(* simulate_xor_degree_distribution (decoding_murmur.py, sim_murmur.py)    *)
(* runs one iteration per step.  An APA is kept as its shape: max_hops,    *)
(* max_degree and, for every hop, the number of degrees its line of the    *)
(* file configures.  The thresholds of a configured cell and the hash of a *)
(* hop are inputs of the step that reads them (a cell is read at most once *)
(* per packet); a cell no line configures holds the 0 load_apa put there.  *)

\* Largest max_degree an APA is loaded with.
MaxDegree == 2

Programs == {"decoding", "decoding_murmur", "sim_murmur"}

\* args.num_hops when --num-hops is not given
NoArg == 0 - 1

\* identifiers rng.getrandbits(id_bits) may draw, and accumulators a log may hold
IdSamples == {0, 1, 2 ^ IdBits - 1}

\* the APAs load_apa can return, by shape
Apas ==
    UNION {UNION {[max_hops : {h}, max_degree : {d}, num_degrees : [0 .. (h - 1) -> 0 .. d]]
                  : d \in 1 .. MaxDegree}
           : h \in 0 .. MaxHops}

\* len(apa.probs_a) = len(apa.add_thresh)
ApaLen(a) == a.max_hops * a.max_degree

\* the line of hop hop configures degree deg
Configured(a, hop, deg) ==
    /\ 0 <= hop /\ hop < a.max_hops
    /\ 0 <= deg /\ deg < a.num_degrees[hop]

\* [0] * (max_hops * max_degree): what a cell holds that no line wrote
Zero32 == <<0, 0>>

\* thresholds a line can configure: 0 and 0xFFFFFFFF
ThresholdSamples == {Zero32, <<Half - 1, Half - 1>>}

\* hashes of a (pktid, hopid): 1 and 0xFFFFFFFF
HashSamples == {<<0, 1>>, <<Half - 1, Half - 1>>}

\* the pairs (probs_a[idx], probs_cum[idx]) a loaded APA can hold at idx < ApaLen
CellValues(a, idx) ==
    IF Configured(a, idx \div a.max_degree, idx % a.max_degree)
    THEN ThresholdSamples \X ThresholdSamples
    ELSE {<<Zero32, Zero32>>}

\* ReconstructDegree with REPLACE leaving xor_degree alone
ReconstructDegreeKept(deg, d, md) ==
    IF d = "ADD" THEN (deg + 1) % md ELSE deg

\* decoding.py: xor_degree after the branch d
ReconstructDegree(deg, d, md) ==
    IF d = "ADD" THEN (deg + 1) % md
    ELSE IF d = "REPLACE" THEN 1
    ELSE deg

\* decoding_murmur.py, sim_murmur.py: xor_degree after the branch d
SimulateDegree(deg, d) ==
    IF d = "ADD" THEN deg + 1
    ELSE IF d = "REPLACE" THEN 1
    ELSE deg

\* sim_murmur.py: xor_set after the branch d
SimHop(S, hop, d) ==
    IF d = "ADD" THEN S \cup {hop}
    ELSE IF d = "REPLACE" THEN {hop}
    ELSE S

\* what an iteration records of itself: the branch, and what it found
StepTaken(d, idx) ==
    [act |-> d, hop |-> hopid, idx |-> idx, deg |-> xor_degree, set |-> xor_set,
     pint |-> pint]

\* a driver has loaded an APA and parsed its arguments
InitSim ==
    /\ prog \in Programs
    /\ apa \in Apas
    /\ args_num_hops \in (IF prog = "decoding" THEN {NoArg} ELSE {}) \cup (0 .. (MaxHops + 1))
    /\ max_observed_hopid \in (IF prog = "decoding" THEN 0 .. MaxHops ELSE {0})
    /\ clamp_reported = FALSE
    /\ hopid = 0 /\ xor_degree = 0 /\ xor_set = {} /\ pint = 0 /\ last = NoStep
    /\ taken = << >>
    /\ pc = "args" /\ num_hops = 0 /\ num_packets = 1 /\ switch_id = << >>
    /\ equations = << >> /\ switch_ids = NotSolved /\ warned = NoRow /\ out = ""
    /\ hash_id = <<0, 0>> /\ add_thr = <<0, 0>> /\ rep_thr = <<0, 0>>
    /\ decM = "" /\ decS = "" /\ decP = NoDecisionP
    /\ NoApaFile /\ NoLogFiles

\* "2) Decide num_hops" of decoding_murmur.py and sim_murmur.py
ClampedNumHops == IF args_num_hops > apa.max_hops THEN apa.max_hops ELSE args_num_hops

\* decoding_murmur.py main, step 2, and the identifiers the simulation draws
ClampNumHops ==
    /\ pc = "args" /\ prog = "decoding_murmur"
    /\ num_hops' = ClampedNumHops
    /\ clamp_reported' = (args_num_hops > apa.max_hops)
    /\ switch_id' \in [0 .. (ClampedNumHops - 1) -> IdSamples]
    /\ pc' = "hops"
    /\ UNCHANGED <<num_packets, equations, switch_ids, warned, out>>
    /\ UNCHANGED <<prog, apa, args_num_hops, max_observed_hopid,
                   hopid, xor_degree, xor_set, pint, last, taken>>
    /\ UNCHANGED <<decisionVars, loadVars, logVars>>

\* sim_murmur.py main, step 2
SimClampNumHops ==
    /\ pc = "args" /\ prog = "sim_murmur"
    /\ num_hops' = ClampedNumHops
    /\ clamp_reported' = (args_num_hops > apa.max_hops)
    /\ pc' = "hops"
    /\ UNCHANGED <<num_packets, switch_id, equations, switch_ids, warned, out>>
    /\ UNCHANGED <<prog, apa, args_num_hops, max_observed_hopid,
                   hopid, xor_degree, xor_set, pint, last, taken>>
    /\ UNCHANGED <<decisionVars, loadVars, logVars>>

\* decoding.py main: num_hops from --num-hops, else min(APA.max_hops, max observed hopid + 1)
DefaultNumHops ==
    /\ pc = "args" /\ prog = "decoding"
    /\ num_hops' = IF args_num_hops # NoArg THEN args_num_hops
                   ELSE IF apa.max_hops < max_observed_hopid + 1 THEN apa.max_hops
                   ELSE max_observed_hopid + 1
    /\ pc' = "hops"
    /\ UNCHANGED <<num_packets, switch_id, equations, switch_ids, warned, out>>
    /\ UNCHANGED simVars
    /\ UNCHANGED <<decisionVars, loadVars, logVars>>

\* "if idx >= len(...): break"
Break(idx) ==
    /\ pc' = "break"
    /\ last' = StepTaken("BREAK", idx)
    /\ UNCHANGED <<hopid, xor_degree, xor_set, pint, taken>>

\* decoding.py reconstruct_xor_sets: one iteration of "for hopid in range(num_hops)"
ReconstructStep ==
    /\ pc = "hops" /\ prog = "decoding" /\ hopid < num_hops
    /\ LET idx == hopid * apa.max_degree + xor_degree
       IN  IF idx >= ApaLen(apa) THEN Break(idx)
           ELSE \E cell \in CellValues(apa, idx), h \in HashSamples :
                   /\ xor_set' = ReconstructHop(xor_set, hopid,
                                                P4Decision(h, cell[1], cell[2]).action)
                   /\ xor_degree' = ReconstructDegree(xor_degree,
                                                      P4Decision(h, cell[1], cell[2]).action,
                                                      apa.max_degree)
                   /\ last' = StepTaken(P4Decision(h, cell[1], cell[2]).action, idx)
                   /\ taken' = Append(taken, P4Decision(h, cell[1], cell[2]).action)
                   /\ hopid' = hopid + 1
                   /\ UNCHANGED <<pc, pint>>
    /\ UNCHANGED <<num_hops, num_packets, switch_id, equations, switch_ids, warned, out>>
    /\ UNCHANGED <<prog, apa, args_num_hops, max_observed_hopid, clamp_reported>>
    /\ UNCHANGED <<decisionVars, loadVars, logVars>>

\* decoding_murmur.py simulate_xor_degree_distribution: one iteration of the hop loop
SimulateStep ==
    /\ pc = "hops" /\ prog = "decoding_murmur" /\ hopid < num_hops
    /\ LET idx == hopid * apa.max_degree + xor_degree
       IN  IF idx >= ApaLen(apa) THEN Break(idx)
           ELSE \E cell \in CellValues(apa, idx), h \in HashSamples :
                   LET d == MurmurDecision(h, cell[1], cell[2])
                       st == SimulateHop([xor_set |-> xor_set, pint |-> pint], hopid, d,
                                         switch_id)
                   IN  /\ xor_set' = st.xor_set
                       /\ pint' = st.pint
                       /\ xor_degree' = SimulateDegree(xor_degree, d)
                       /\ last' = StepTaken(d, idx)
                       /\ taken' = Append(taken, d)
                       /\ hopid' = hopid + 1
                       /\ UNCHANGED pc
    /\ UNCHANGED <<num_hops, num_packets, switch_id, equations, switch_ids, warned, out>>
    /\ UNCHANGED <<prog, apa, args_num_hops, max_observed_hopid, clamp_reported>>
    /\ UNCHANGED <<decisionVars, loadVars, logVars>>

\* sim_murmur.py simulate_xor_degree_distribution: one iteration of the hop loop
SimStep ==
    /\ pc = "hops" /\ prog = "sim_murmur" /\ hopid < num_hops
    /\ LET idx == hopid * apa.max_degree + xor_degree
       IN  IF idx >= ApaLen(apa) THEN Break(idx)
           ELSE \E cell \in CellValues(apa, idx), h \in HashSamples :
                   /\ xor_set' = SimHop(xor_set, hopid, SimDecision(h, cell[1], cell[2]))
                   /\ xor_degree' = SimulateDegree(xor_degree, SimDecision(h, cell[1], cell[2]))
                   /\ last' = StepTaken(SimDecision(h, cell[1], cell[2]), idx)
                   /\ taken' = Append(taken, SimDecision(h, cell[1], cell[2]))
                   /\ hopid' = hopid + 1
                   /\ UNCHANGED <<pc, pint>>
    /\ UNCHANGED <<num_hops, num_packets, switch_id, equations, switch_ids, warned, out>>
    /\ UNCHANGED <<prog, apa, args_num_hops, max_observed_hopid, clamp_reported>>
    /\ UNCHANGED <<decisionVars, loadVars, logVars>>

\* the hop loop is over: range(num_hops) is exhausted or the loop broke
HopsDone == (pc = "hops" /\ hopid >= num_hops) \/ pc = "break"

\* decoding.py reconstruct_xor_sets: equations.append(PacketEquation(...))
ReconstructEmit ==
    /\ HopsDone /\ prog = "decoding"
    /\ \E final_pint \in IdSamples :
          equations' = Append(equations,
                              [pktid |-> 0, final_pint |-> final_pint, xor_set |-> xor_set,
                               simulated_degree |-> xor_degree])
    /\ pc' = "done"
    /\ UNCHANGED <<num_hops, num_packets, switch_id, switch_ids, warned, out>>
    /\ UNCHANGED <<simVars, decisionVars, loadVars, logVars>>

\* decoding_murmur.py: final_degree = len(xor_set); equations.append(PacketEquation(...))
SimulateEmit ==
    /\ HopsDone /\ prog = "decoding_murmur"
    /\ equations' = Append(equations,
                           [pktid |-> 0, final_pint |-> pint, xor_set |-> xor_set])
    /\ pc' = "done"
    /\ UNCHANGED <<num_hops, num_packets, switch_id, switch_ids, warned, out>>
    /\ UNCHANGED <<simVars, decisionVars, loadVars, logVars>>

\* sim_murmur.py: final_degree = len(xor_set); xor_dist[final_degree] += 1
SimEmit ==
    /\ HopsDone /\ prog = "sim_murmur"
    /\ pc' = "done"
    /\ UNCHANGED <<num_hops, num_packets, switch_id, equations, switch_ids, warned, out>>
    /\ UNCHANGED <<simVars, decisionVars, loadVars, logVars>>

NextSim ==
    \/ ClampNumHops \/ SimClampNumHops \/ DefaultNumHops
    \/ ReconstructStep \/ SimulateStep \/ SimStep
    \/ ReconstructEmit \/ SimulateEmit \/ SimEmit

SpecSim == InitSim /\ [][NextSim]_vars

-----------------------------------------------------------------------------
(* The APA file and its two readers: load_apa of the decoders and          *)
(* parse_monitored of the controllers.  A file is the sequence of its      *)
(* lines; a line is the sequence of its comma-separated fields, << >> for  *)
(* a blank line (lines made of commas and spaces only are left out).  A    *)
(* field is the probability p its text denotes, kept as <<hi, lo, f>> with *)
(* p * 2^32 = hi * 2^16 + lo + f / 2: f is the first bit int() drops.      *)

\* Largest number of lines of an APA file.
MaxLines == 2
\* Largest number of fields of an APA file, all lines together.
MaxFields == 4

\* probabilities: just above 0.5, and 1.0
ProbSamples == {<<2 ^ 15, 1, 1>>, <<Half, 0, 0>>}

\* the lines a file can have
FileLines == UNION {[1 .. n -> ProbSamples] : n \in 0 .. MaxFields}

RECURSIVE FieldCount(_)
\* number of fields of a file
FieldCount(f) == IF f = << >> THEN 0 ELSE Len(Head(f)) + FieldCount(Tail(f))

\* the APA files
Files ==
    {f \in UNION {[1 .. n -> FileLines] : n \in 0 .. MaxLines} : FieldCount(f) <= MaxFields}

\* self.num_hops of the controller (MAX_HOPS): at least the lines of any file
MAX_HOPS == MaxLines

\* int(float(text) * 2**32), not masked
Scale(p) == <<p[1], p[2]>>

\* Encode without the "& 0xFFFFFFFF"
EncodeUnmasked(p) == <<p[1], p[2]>>

\* int(p * (2**32)) & 0xFFFFFFFF
Encode(p) == Mask32(Scale(p))

\* "if not line: continue"
IsNonBlank(line) == line # << >>

\* the list lines of load_apa: the stripped non-blank lines, in file order
StripLines(f) == SelectSeq(f, IsNonBlank)

\* the ValueError load_apa raises on a line, "" when it raises none
LineError(line, md) ==
    IF Len(line) % 2 # 0 THEN "odd number of columns"
    ELSE IF Len(line) \div 2 > md THEN "degrees"
    ELSE ""

\* hop_idx of the first line the loop of load_apa raises on, NoRow when there is none
FirstBad(lines, md) ==
    IF \A k \in 1 .. Len(lines) : LineError(lines[k], md) = "" THEN NoRow
    ELSE (CHOOSE k \in 1 .. Len(lines) :
             /\ LineError(lines[k], md) # ""
             /\ \A j \in 1 .. (k - 1) : LineError(lines[j], md) = "") - 1

\* probs_a[idx] (which = 1) or probs_cum[idx] (which = 2) once every line is processed
ApaCell(lines, md, idx, which) ==
    IF idx % md < Len(lines[idx \div md + 1]) \div 2
    THEN Encode(lines[idx \div md + 1][2 * (idx % md) + which])
    ELSE Zero32

\* the APA load_apa returns when no line raises
LoadedApa(lines, md) ==
    [err |-> "", line |-> NoRow,
     max_hops |-> Len(lines), max_degree |-> md,
     probs_a |-> [idx \in 0 .. (Len(lines) * md - 1) |-> ApaCell(lines, md, idx, 1)],
     probs_cum |-> [idx \in 0 .. (Len(lines) * md - 1) |-> ApaCell(lines, md, idx, 2)]]

\* the error of load_apa on line hop_idx: its kind and the "Line {hop_idx}" of its text
LoadError(lines, md, hop_idx) ==
    [err |-> LineError(lines[hop_idx + 1], md), line |-> hop_idx]

\* load_apa, given its list lines and the first line that raises
LoadLines(lines, md, bad) ==
    IF bad # NoRow THEN LoadError(lines, md, bad) ELSE LoadedApa(lines, md)

\* load_apa(robust_path, max_degree)
load_apa(f, md) == LoadLines(StripLines(f), md, FirstBad(StripLines(f), md))

\* the (hop, degree) the loops of parse_monitored write: every line counts as a hop
CtlWrites(f) ==
    UNION {{<<hop, degree>> : degree \in 0 .. (Len(f[hop + 1]) \div 2 - 1)}
           : hop \in 0 .. (Len(f) - 1)}

\* the last write of parse_monitored to index idx, << >> when there is none
LastWrite(f, md, idx) ==
    IF \A w \in CtlWrites(f) : w[1] * md + w[2] # idx THEN << >>
    ELSE CHOOSE w \in CtlWrites(f) :
             /\ w[1] * md + w[2] = idx
             /\ \A v \in CtlWrites(f) : v[1] * md + v[2] = idx => v[1] <= w[1]

\* probs_a[idx] (which = 1) or probs_cum[idx] (which = 2) of parse_monitored
CtlCell(f, idx, which, w) ==
    IF w = << >> THEN Zero32 ELSE Scale(f[w[1] + 1][2 * w[2] + which])

\* parse_monitored(path) with MAX_DEGREE = md
parse_monitored(f, md) ==
    IF \E w \in CtlWrites(f) : w[1] * md + w[2] >= MAX_HOPS * md
    THEN [err |-> "IndexError"]
    ELSE [err |-> "",
          probs_a |-> [idx \in 0 .. (MAX_HOPS * md - 1) |->
                          CtlCell(f, idx, 1, LastWrite(f, md, idx))],
          probs_cum |-> [idx \in 0 .. (MAX_HOPS * md - 1) |->
                          CtlCell(f, idx, 2, LastWrite(f, md, idx))]]

Controllers == {"tofino", "controller"}

\* an APA file is on disk; a decoder and a controller are about to read it
InitLoad ==
    /\ file \in Files
    /\ max_degree \in 0 .. MaxDegree
    /\ prog \in Programs
    /\ ctl \in Controllers
    /\ loaded = NotLoaded /\ parsed = NotParsed
    /\ pc = "apa" /\ num_hops = 0 /\ num_packets = 0 /\ switch_id = << >>
    /\ equations = << >> /\ switch_ids = NotSolved /\ warned = NoRow /\ out = ""
    /\ hash_id = <<0, 0>> /\ add_thr = <<0, 0>> /\ rep_thr = <<0, 0>>
    /\ decM = "" /\ decS = "" /\ decP = NoDecisionP
    /\ apa = NoApa /\ args_num_hops = 0 /\ max_observed_hopid = 0
    /\ clamp_reported = FALSE
    /\ hopid = 0 /\ xor_degree = 0 /\ xor_set = {} /\ pint = 0 /\ last = NoStep
    /\ taken = << >>
    /\ NoLogFiles

\* decoding.py main, step 1: load_apa
LoadApa ==
    /\ prog = "decoding" /\ loaded = NotLoaded
    /\ loaded' = load_apa(file, max_degree)
    /\ UNCHANGED <<file, max_degree, parsed, ctl>>
    /\ UNCHANGED <<driverVars, decisionVars, simVars, logVars>>

\* decoding_murmur.py main, step 1: load_apa
LoadApaMurmur ==
    /\ prog = "decoding_murmur" /\ loaded = NotLoaded
    /\ loaded' = load_apa(file, max_degree)
    /\ UNCHANGED <<file, max_degree, parsed, ctl>>
    /\ UNCHANGED <<driverVars, decisionVars, simVars, logVars>>

\* sim_murmur.py main, step 1: load_apa
LoadApaSim ==
    /\ prog = "sim_murmur" /\ loaded = NotLoaded
    /\ loaded' = load_apa(file, max_degree)
    /\ UNCHANGED <<file, max_degree, parsed, ctl>>
    /\ UNCHANGED <<driverVars, decisionVars, simVars, logVars>>

\* tofino/controller.py: parse_monitored
ParseMonitored ==
    /\ ctl = "tofino" /\ parsed = NotParsed
    /\ parsed' = parse_monitored(file, max_degree)
    /\ UNCHANGED <<file, max_degree, loaded, ctl>>
    /\ UNCHANGED <<driverVars, decisionVars, simVars, logVars>>

\* controller/controller.py: parse_monitored
ParseMonitoredBmv2 ==
    /\ ctl = "controller" /\ parsed = NotParsed
    /\ parsed' = parse_monitored(file, max_degree)
    /\ UNCHANGED <<file, max_degree, loaded, ctl>>
    /\ UNCHANGED <<driverVars, decisionVars, simVars, logVars>>

NextLoad == LoadApa \/ LoadApaMurmur \/ LoadApaSim \/ ParseMonitored \/ ParseMonitoredBmv2

SpecLoad == InitLoad /\ [][NextLoad]_vars

-----------------------------------------------------------------------------
(* decoding.py from the log files to the equations: load_packet_logs reads *)
(* the packet_<pktid>.csv files in the order glob.glob yields them, then   *)
(* reconstruct_xor_sets walks sorted(logs.items()).  The dict logs is kept *)
(* as the sequence of its values in insertion order.                       *)

\* a row (hopid, ttl, pint, xor_degree) of a log whose pint is p
LogRow(p) == <<0, 64, p, 1>>

\* the rows a packet_*.csv file can hold: none, one, or two with different pint
RowSamples ==
    {<< >>, <<LogRow(1)>>, <<LogRow(1), LogRow(2)>>, <<LogRow(2), LogRow(1)>>}

\* the files of the output directory: the pktid of the name, and the rows
LogFiles == [pktid : 0 .. MaxPackets, rows : RowSamples]

\* the orders glob.glob can yield files in (two names can carry the same pktid)
GlobOrders == UNION {[1 .. n -> LogFiles] : n \in 0 .. MaxPackets}

\* logs[pktid] = PacketLog(pktid=pktid, rows=rows)
Store(d, plog) ==
    IF \E i \in 1 .. Len(d) : d[i].pktid = plog.pktid
    THEN [i \in 1 .. Len(d) |-> IF d[i].pktid = plog.pktid THEN plog ELSE d[i]]
    ELSE Append(d, plog)

\* PacketLog.final_pint: self.rows[-1][2]
final_pint(plog) == plog.rows[Len(plog.rows)][3]

\* SortedItems leaving the items in insertion order
InsertionOrder(items) == items

RECURSIVE SortedItems(_)
\* sorted(logs.items()): by pktid, the keys of a dict being distinct
SortedItems(items) ==
    IF items = << >> THEN << >>
    ELSE LET m == CHOOSE i \in 1 .. Len(items) :
                      \A j \in 1 .. Len(items) : items[i].pktid <= items[j].pktid
         IN  <<items[m]>> \o SortedItems(SubSeq(items, 1, m - 1)
                                          \o SubSeq(items, m + 1, Len(items)))

\* decoding.py main is about to load the packet logs of the output directory
InitLogs ==
    /\ paths \in GlobOrders
    /\ logs = << >>
    /\ pc = "load" /\ num_hops = 1 /\ num_packets = 0 /\ switch_id = << >>
    /\ equations = << >> /\ switch_ids = NotSolved /\ warned = NoRow /\ out = ""
    /\ hash_id = <<0, 0>> /\ add_thr = <<0, 0>> /\ rep_thr = <<0, 0>>
    /\ decM = "" /\ decS = "" /\ decP = NoDecisionP
    /\ NoPacket /\ NoApaFile

\* load_packet_logs: one iteration of "for path in glob.glob(pattern)"
LoadLog ==
    /\ pc = "load" /\ paths # << >>
    /\ logs' = IF Head(paths).rows # << >> THEN Store(logs, Head(paths)) ELSE logs
    /\ paths' = Tail(paths)
    /\ UNCHANGED <<driverVars, decisionVars, simVars, loadVars>>

\* load_packet_logs returns and reconstruct_xor_sets is called
LogsLoaded ==
    /\ pc = "load" /\ paths = << >>
    /\ pc' = "reconstruct"
    /\ UNCHANGED <<num_hops, num_packets, switch_id, equations, switch_ids, warned, out>>
    /\ UNCHANGED <<decisionVars, simVars, loadVars, logVars>>

\* reconstruct_xor_sets: one iteration of "for pktid, plog in sorted(logs.items())"
ReconstructLog ==
    /\ pc = "reconstruct" /\ Len(equations) < Len(logs)
    /\ \E trace \in Traces(num_hops) :
          equations' = Append(equations,
                              [pktid |-> SortedItems(logs)[Len(equations) + 1].pktid,
                               final_pint |-> final_pint(SortedItems(logs)[Len(equations) + 1]),
                               xor_set |-> ReconstructHops(trace, 0, num_hops, {})])
    /\ UNCHANGED <<pc, num_hops, num_packets, switch_id, switch_ids, warned, out>>
    /\ UNCHANGED <<decisionVars, simVars, loadVars, logVars>>

\* reconstruct_xor_sets: return equations
ReconstructReturn ==
    /\ pc = "reconstruct" /\ Len(equations) = Len(logs)
    /\ pc' = "done"
    /\ UNCHANGED <<num_hops, num_packets, switch_id, equations, switch_ids, warned, out>>
    /\ UNCHANGED <<decisionVars, simVars, loadVars, logVars>>

NextLogs == LoadLog \/ LogsLoaded \/ ReconstructLog \/ ReconstructReturn

SpecLogs == InitLogs /\ [][NextLogs]_vars

-----------------------------------------------------------------------------
(* Notions the properties are stated with, defined without the solver.     *)

\* the columns that occur an odd number of times in the rows S of the system
XorOfRows(eqs, k, S) ==
    {c \in 0 .. (k - 1) : Cardinality({j \in S : c \in MaskOf(eqs[j].xor_set, k)}) % 2 = 1}

\* the masks of the system have rank k over GF(2): their span is all of GF(2)^k
FullRank(eqs, k) ==
    Cardinality({XorOfRows(eqs, k, S) : S \in SUBSET (1 .. Len(eqs))}) = 2 ^ k

\* XOR of bit b of x[i] over the i of xor_set with 0 <= i < k
XorOfBits(x, S, k, b) ==
    Cardinality({i \in MaskOf(S, k) : Bit(x[i], b) = 1}) % 2

\* x satisfies every equation on every bit-plane below id_bits
Satisfies(x, eqs, k, id_bits) ==
    \A j \in 1 .. Len(eqs), b \in 0 .. (id_bits - 1) :
        XorOfBits(x, eqs[j].xor_set, k, b) = Bit(eqs[j].final_pint, b)

\* bit-plane b of the system has at least one solution
PlaneSolvable(eqs, k, b) ==
    \E x \in [0 .. (k - 1) -> {0, 1}] :
        \A j \in 1 .. Len(eqs) : XorOfBits(x, eqs[j].xor_set, k, 0) = Bit(eqs[j].final_pint, b)

\* solve_switch_ids has been called and returned
Solved == pc = "done" /\ out # "no_logs"

\* the lowest bit-plane in which p or q has a 1
LowestOne(p, q) ==
    CHOOSE b \in 0 .. IdBits :
        /\ (b < IdBits => Bit(p, b) = 1 \/ Bit(q, b) = 1)
        /\ \A c \in 0 .. (b - 1) : Bit(p, c) = 0 /\ Bit(q, c) = 0

-----------------------------------------------------------------------------
(* Properties                                                              *)

\* C1 (SpecGen): when the masks of a non-empty generated equation list have rank
\* num_hops, solve_switch_ids returns exactly the identifiers the run generated from.
C1_RoundTrip ==
    (Solved /\ Len(equations) >= 1 /\ FullRank(equations, num_hops))
        => (switch_ids.none = FALSE /\ switch_ids.ids = switch_id)

\* a two-hop run whose second packet isolates hop 1 from the pair {0, 1}
C1_Witness ==
    /\ Solved /\ num_hops = 2 /\ Len(equations) = 2
    /\ equations[1].xor_set = {0, 1} /\ equations[2].xor_set = {1}
    /\ switch_id[0] = 1 /\ switch_id[1] = 2
    /\ equations[1].final_pint = 3
    /\ switch_ids.none = FALSE /\ switch_ids.ids = switch_id

\* C2 (Spec): a returned vector satisfies every input equation on every bit-plane.
C2_SolutionSatisfies ==
    (Solved /\ switch_ids.none = FALSE)
        => Satisfies(switch_ids.ids, equations, num_hops, IdBits)

\* a solve of two overlapping equations with non-zero accumulators that returned a vector
C2_Witness ==
    /\ Solved /\ switch_ids.none = FALSE
    /\ num_hops = 2 /\ Len(equations) = 2
    /\ equations[1].xor_set = {0, 1} /\ equations[2].xor_set = {1}
    /\ equations[1].final_pint = 1 /\ equations[2].final_pint = 3

\* two equations, identical masks, accumulators differing exactly at bit b
TwoEquationsDifferAt(b) ==
    /\ Solved /\ Len(equations) = 2
    /\ MaskOf(equations[1].xor_set, num_hops) = MaskOf(equations[2].xor_set, num_hops)
    /\ XorInt(equations[1].final_pint, equations[2].final_pint) = 2 ^ b

\* C3 as stated (Spec): such a solve fails, names plane b and returns no vector.
C3_ReportsDifferingBit ==
    \A b \in 0 .. (IdBits - 1) :
        TwoEquationsDifferAt(b)
            => (switch_ids.none /\ switch_ids.ids = << >> /\ warned = b)

\* C3 amended (Spec): such a solve fails and returns no vector; the plane it names is
\* b when the common mask is non-empty, and with an empty common mask the lowest
\* plane in which either accumulator has a 1 (which is at most b).
C3_ReportsFirstContradiction ==
    \A b \in 0 .. (IdBits - 1) :
        TwoEquationsDifferAt(b)
            => /\ switch_ids.none /\ switch_ids.ids = << >>
               /\ warned = IF MaskOf(equations[1].xor_set, num_hops) # {} THEN b
                           ELSE LowestOne(equations[1].final_pint, equations[2].final_pint)
               /\ warned <= b

\* plane 0 was solved (to a 1) before plane 1 failed, and nothing is returned
C3_Witness ==
    /\ TwoEquationsDifferAt(1)
    /\ num_hops = 2 /\ equations[1].xor_set = {0, 1}
    /\ equations[1].final_pint = 1 /\ equations[2].final_pint = 3
    /\ switch_ids.none /\ switch_ids.ids = << >> /\ warned = 1

\* C4 as stated (SpecGen): when every bit-plane has a solution the solve returns a vector.
C4_FailsOnlyOnContradiction ==
    (Solved /\ \A b \in 0 .. (IdBits - 1) : PlaneSolvable(equations, num_hops, b))
        => (switch_ids.none = FALSE /\ DOMAIN switch_ids.ids = 0 .. (num_hops - 1))

\* the pivot column of a one-equation system, NoRow when its mask is empty
OnlyPivot(eqs, k) ==
    IF MaskOf(eqs[1].xor_set, k) = {} THEN NoRow
    ELSE CHOOSE c \in MaskOf(eqs[1].xor_set, k) : \A d \in MaskOf(eqs[1].xor_set, k) : c <= d

\* C5 as stated (Spec): one equation and num_hops = 2 always solve, the hops without
\* a pivot getting 0.
C5_OneEquationSolves ==
    (Solved /\ Len(equations) = 1 /\ num_hops = 2)
        => /\ switch_ids.none = FALSE
           /\ \A i \in 0 .. 1 : i # OnlyPivot(equations, 2) => switch_ids.ids[i] = 0

\* C5 amended (Spec): one equation and num_hops = 2 solve when the equation's mask is
\* non-empty or its accumulator is 0, the hops without a pivot getting 0.
C5_OneConsistentEquationSolves ==
    (/\ Solved /\ Len(equations) = 1 /\ num_hops = 2
     /\ (MaskOf(equations[1].xor_set, 2) # {} \/ equations[1].final_pint = 0))
        => /\ switch_ids.none = FALSE
           /\ \A i \in 0 .. 1 : i # OnlyPivot(equations, 2) => switch_ids.ids[i] = 0

\* the single equation {0, 1} with every accumulator bit set: hop 1 has no pivot
C5_Witness ==
    /\ Solved /\ Len(equations) = 1 /\ num_hops = 2
    /\ equations[1].xor_set = {0, 1} /\ equations[1].final_pint = 2 ^ IdBits - 1
    /\ switch_ids.none = FALSE
    /\ switch_ids.ids[0] = 2 ^ IdBits - 1 /\ switch_ids.ids[1] = 0

\* everything main hands to its caller for the equations eqs
MainResult(eqs, k) ==
    <<[none |-> solve_switch_ids(eqs, k, IdBits).none,
       ids |-> solve_switch_ids(eqs, k, IdBits).ids],
      solve_switch_ids(eqs, k, IdBits).warn,
      MainReport(solve_switch_ids(eqs, k, IdBits))>>

\* the systems of k equations over k hops whose masks have rank k
DeterminedSystems(k) ==
    {eqs \in [1 .. k -> [pktid : {0}, final_pint : Ids, xor_set : SUBSET (0 .. (k - 1))]] :
        FullRank(eqs, k)}

\* C6 as stated (Spec): what main reports for a solved underdetermined system differs
\* from what it reports for every system that determines all hops.
C6_UnderdeterminedFlagged ==
    (Solved /\ switch_ids.none = FALSE /\ ~FullRank(equations, num_hops))
        => \A eqs \in DeterminedSystems(num_hops) :
              MainResult(eqs, num_hops) # <<switch_ids, warned, out>>

-----------------------------------------------------------------------------
(* Properties of the decision policies (SpecDecision)                      *)

\* v - 2^31 for the 32-bit value v: an integer image that keeps the unsigned order
Off(x) == (x[1] - 2 ^ 15) * Half + x[2]

\* 0xFFFFFFFF
Max32 == <<Half - 1, Half - 1>>

\* the action Policy A is specified to take
PlainAction(h, a, r) ==
    IF Off(h) < Off(a) THEN "ADD"
    ELSE IF Off(h) > Off(r) THEN "REPLACE"
    ELSE "SKIP"

\* C7 (SpecDecision): the plain-threshold policy of decoding_murmur.py and of
\* sim_murmur.py takes exactly one action: ADD iff h < add_threshold, REPLACE iff not
\* (h < add_threshold) and h > replace_threshold, SKIP otherwise.
C7_PlainPolicy ==
    \A d \in {decM, decS} :
        d # "" =>
            /\ d \in Actions
            /\ (d = "ADD" <=> Off(hash_id) < Off(add_thr))
            /\ (d = "REPLACE" <=> (~(Off(hash_id) < Off(add_thr)) /\ Off(hash_id) > Off(rep_thr)))
            /\ (d = "SKIP" <=> (~(Off(hash_id) < Off(add_thr)) /\ ~(Off(hash_id) > Off(rep_thr))))

\* both conditions hold and ADD wins, in both files
C7_Witness ==
    /\ decM = "ADD" /\ decS = "ADD"
    /\ Off(hash_id) < Off(add_thr) /\ Off(hash_id) > Off(rep_thr)

\* the sign-overflow rule of the add decision, for the subtraction x - y
SignOverflowRule(x, y) ==
    \/ (_sign_bit(x) = 0 /\ _sign_bit(y) = 1)
    \/ (_sign_bit(x) = _sign_bit(y) /\ _sign_bit(Sub32(x, y)) = 1)

\* C8 as stated (SpecDecision): _p4_replace_decision(h, c) is true exactly when the
\* sign-overflow rule holds of the subtraction c - h.
C8_ReplaceIsSymmetric ==
    decP.replace # "" => ((decP.replace = "T") <=> SignOverflowRule(rep_thr, hash_id))

\* C9 (SpecDecision): the two policies are not equivalent. On every hop whose hash
\* is not below add_threshold, is not above replace_threshold and has the sign bit
\* of replace_threshold, the signed-subtraction policy of decoding.py and the plain
\* policy of decoding_murmur.py take different actions (REPLACE and SKIP); such
\* hops exist (C9_Witness).
C9_PoliciesDiffer ==
    (/\ decM # "" /\ decP # NoDecisionP
     /\ Off(hash_id) >= Off(add_thr)
     /\ Off(hash_id) <= Off(rep_thr)
     /\ (hash_id[1] >= 2 ^ 15) = (rep_thr[1] >= 2 ^ 15))
    => (decP.action # decM /\ decP.action = "REPLACE" /\ decM = "SKIP")

\* one hop with 32-bit values of that kind on which the two decoders have taken
\* different actions
C9_Witness ==
    /\ decM # "" /\ decP # NoDecisionP
    /\ Off(hash_id) >= Off(add_thr)
    /\ Off(hash_id) <= Off(rep_thr)
    /\ (hash_id[1] >= 2 ^ 15) = (rep_thr[1] >= 2 ^ 15)
    /\ decP.action # decM

\* C10 as stated (SpecDecision): with add_threshold = 0xFFFFFFFF the plain policy
\* takes ADD for every hash.
C10_AlwaysAdd ==
    (decM # "" /\ add_thr = Max32) => decM = "ADD"

\* C10 amended (SpecDecision): with add_threshold = 0xFFFFFFFF the plain policy takes
\* ADD for every hash but 0xFFFFFFFF; for the hash 0xFFFFFFFF it takes REPLACE when
\* replace_threshold < 0xFFFFFFFF and SKIP when replace_threshold = 0xFFFFFFFF.
C10_AddBelowMax ==
    (decM # "" /\ add_thr = Max32) =>
        decM = IF hash_id # Max32 THEN "ADD"
               ELSE IF rep_thr # Max32 THEN "REPLACE"
               ELSE "SKIP"

\* a hash above the replace threshold still takes ADD
C10_Witness ==
    /\ decM = "ADD" /\ add_thr = Max32
    /\ hash_id = <<2 ^ 15, 0>> /\ rep_thr = <<0, 0>>

-----------------------------------------------------------------------------
(* Properties of the packet simulation (SpecSim)                           *)

\* S with the membership of h toggled
Toggle(S, h) == IF h \in S THEN S \ {h} ELSE S \cup {h}

\* v is the XOR, on IdBits bits, of ids[i] over the i of S (0 when S is empty)
IsXorOf(v, ids, S) ==
    /\ v \in 0 .. (2 ^ IdBits - 1)
    /\ \A b \in 0 .. (IdBits - 1) :
          Bit(v, b) = Cardinality({i \in S : Bit(ids[i], b) = 1}) % 2

\* C11 as stated (SpecSim): in each of the three simulators an ADD at hop h toggles h
\* in xor_set, sets xor_degree to (xor_degree + 1) mod max_degree and, in generation
\* mode, XORs switch_id[h] into the accumulator.
C11_AddEffect ==
    last.act = "ADD" =>
        /\ xor_set = Toggle(last.set, last.hop)
        /\ xor_degree = (last.deg + 1) % apa.max_degree
        /\ (prog = "decoding_murmur" => pint = XorInt(last.pint, switch_id[last.hop]))

\* C12 (SpecSim): a REPLACE at hop h leaves xor_set = {h}, xor_degree = 1 and, in
\* generation mode, the accumulator = switch_id[h], whatever they were; a SKIP leaves
\* xor_set, xor_degree and the accumulator as they were.
C12_ReplaceAndSkip ==
    /\ last.act = "REPLACE" =>
          /\ xor_set = {last.hop}
          /\ xor_degree = 1
          /\ (prog = "decoding_murmur" => pint = switch_id[last.hop])
    /\ last.act = "SKIP" =>
          /\ xor_set = last.set
          /\ xor_degree = last.deg
          /\ pint = last.pint

\* a generation run whose hop 1 replaced the set {0} and the accumulator switch_id[0]
C12_Witness ==
    /\ prog = "decoding_murmur" /\ last.act = "REPLACE" /\ last.hop = 1
    /\ last.set = {0} /\ last.pint = switch_id[0] /\ switch_id[0] # switch_id[1]
    /\ xor_set = {1} /\ xor_degree = 1 /\ pint = switch_id[1]

\* C13 as stated (SpecSim): at every point of a packet's simulation xor_degree is the
\* number of hops in xor_set and lies in [0, max_degree), and the simulated_degree of
\* the packet's equation is the size of its xor_set.
C13_DegreeIsSetSize ==
    /\ pc \in {"hops", "break", "done"} =>
          /\ xor_degree = Cardinality(xor_set)
          /\ 0 <= xor_degree /\ xor_degree < apa.max_degree
    /\ prog = "decoding" =>
          \A j \in 1 .. Len(equations) :
              equations[j].simulated_degree = Cardinality(equations[j].xor_set)

\* C14 as stated (SpecSim): an ADD or a REPLACE is applied only from a cell that a
\* line of the APA file configured for the hop being processed.
C14_OnlyConfiguredCells ==
    last.act \in {"ADD", "REPLACE"} =>
        /\ last.idx \div apa.max_degree = last.hop
        /\ Configured(apa, last.hop, last.deg)

\* C15 (SpecSim): in generation mode the accumulator is, after every hop, the XOR of
\* the identifiers of the hops in xor_set, and so is the final_pint of the equation
\* emitted.
C15_AccumulatorIsXorOfSet ==
    (prog = "decoding_murmur" /\ pc # "args") =>
        /\ IsXorOf(pint, switch_id, xor_set)
        /\ \A j \in 1 .. Len(equations) :
              IsXorOf(equations[j].final_pint, switch_id, equations[j].xor_set)

\* hop 0 was added and replaced by hop 1, whose identifier differs, and the equation
\* is emitted
C15_Witness ==
    /\ prog = "decoding_murmur" /\ pc = "done" /\ Len(equations) = 1
    /\ last.act = "REPLACE" /\ last.hop = 1 /\ last.set = {0}
    /\ switch_id[0] = 1 /\ switch_id[1] = 2 ^ IdBits - 1
    /\ equations[1].xor_set = {1} /\ equations[1].final_pint = 2 ^ IdBits - 1

\* C20 as stated (SpecSim): in every driver the num_hops used never exceeds
\* apa.max_hops, and a larger request is clamped and the clamp reported.
C20_NumHopsClamped ==
    pc # "args" =>
        /\ num_hops <= apa.max_hops
        /\ (args_num_hops > apa.max_hops => clamp_reported)

-----------------------------------------------------------------------------
(* Properties of the APA readers (SpecLoad)                                *)

\* number of non-blank lines of the file
NonBlankCount(f) == Cardinality({i \in 1 .. Len(f) : f[i] # << >>})

\* position in the file (from 1) of its non-blank line number k (from 0)
FilePos(f, k) ==
    CHOOSE i \in 1 .. Len(f) :
        f[i] # << >> /\ Cardinality({j \in 1 .. (i - 1) : f[j] # << >>}) = k

\* line i of the file is non-blank and has an odd number of fields or more than md pairs
Offending(f, i, md) ==
    /\ f[i] # << >>
    /\ (Len(f[i]) % 2 = 1 \/ Len(f[i]) \div 2 > md)

\* floor(p * 2^32) mod 2^32
Floor32(p) == <<p[1] % Half, p[2]>>

\* load_apa returned an APA
LoadedOk == loaded # NotLoaded /\ loaded.err = ""

\* C16 as stated (SpecLoad): load_apa fails exactly when some non-blank line has an odd
\* number of fields or more than max_degree pairs, and the error then names the number
\* that an offending line has in the file (counted from 0 or from 1).
C16_ErrorNamesFileLine ==
    loaded # NotLoaded =>
        /\ (loaded.err # "") <=> (\E i \in 1 .. Len(file) : Offending(file, i, max_degree))
        /\ (loaded.err # "") =>
               \E i \in 1 .. Len(file) :
                   Offending(file, i, max_degree) /\ loaded.line \in {i - 1, i}

\* C17 (SpecLoad): a loaded APA has max_hops = the number of non-blank lines, both
\* arrays of length max_hops * max_degree, at index hop * max_degree + d the encoding
\* of pair d of non-blank line hop, and 0 where that line has no pair d.
C17_LoadedShape ==
    LoadedOk =>
        /\ loaded.max_hops = NonBlankCount(file)
        /\ loaded.max_degree = max_degree
        /\ DOMAIN loaded.probs_a = 0 .. (NonBlankCount(file) * max_degree - 1)
        /\ DOMAIN loaded.probs_cum = 0 .. (NonBlankCount(file) * max_degree - 1)
        /\ \A hop \in 0 .. (NonBlankCount(file) - 1), d \in 0 .. (max_degree - 1) :
              /\ loaded.probs_a[hop * max_degree + d] =
                    IF d < Len(file[FilePos(file, hop)]) \div 2
                    THEN Floor32(file[FilePos(file, hop)][2 * d + 1])
                    ELSE <<0, 0>>
              /\ loaded.probs_cum[hop * max_degree + d] =
                    IF d < Len(file[FilePos(file, hop)]) \div 2
                    THEN Floor32(file[FilePos(file, hop)][2 * d + 2])
                    ELSE <<0, 0>>

\* a blank line, then the line "1.0, 0.5.." loaded with max_degree = 2: one hop, 1.0
\* encoded as 0, the fraction of the second field dropped, degree 1 left at 0
C17_Witness ==
    /\ LoadedOk /\ max_degree = 2
    /\ file = << << >>, << <<Half, 0, 0>>, <<2 ^ 15, 1, 1>> >> >>
    /\ loaded.max_hops = 1
    /\ loaded.probs_a = [idx \in 0 .. 1 |-> <<0, 0>>]
    /\ loaded.probs_cum = [idx \in 0 .. 1 |-> IF idx = 0 THEN <<2 ^ 15, 1>> ELSE <<0, 0>>]

\* C18 as stated (SpecLoad): for every hop and degree of a file both readers accept,
\* the tables of load_apa and of parse_monitored hold the same values at
\* hop * max_degree + degree.
C18_LoaderMatchesController ==
    (LoadedOk /\ parsed # NotParsed /\ parsed.err = "") =>
        \A hop \in 0 .. (loaded.max_hops - 1), d \in 0 .. (max_degree - 1) :
            /\ loaded.probs_a[hop * max_degree + d] = parsed.probs_a[hop * max_degree + d]
            /\ loaded.probs_cum[hop * max_degree + d] = parsed.probs_cum[hop * max_degree + d]

-----------------------------------------------------------------------------
(* Properties of the log reader (SpecLogs)                                 *)

\* the pint of the last row of the stored log of packet id
LastPintOf(id) ==
    LET plog == CHOOSE l \in {logs[i] : i \in 1 .. Len(logs)} : l.pktid = id
    IN  plog.rows[Len(plog.rows)][3]

\* C19 (SpecLogs): the equations are emitted in strictly increasing packet-id order
\* whatever the order the logs were loaded in; when reconstruct_xor_sets returns there
\* is exactly one equation per packet log, carrying the pint of the log's last row.
C19_SortedOnePerLog ==
    /\ \A i \in 1 .. Len(equations), j \in 1 .. Len(equations) :
          i < j => equations[i].pktid < equations[j].pktid
    /\ pc = "done" =>
          /\ Len(equations) = Len(logs)
          /\ \A i \in 1 .. Len(logs) :
                Cardinality({j \in 1 .. Len(equations) :
                                equations[j].pktid = logs[i].pktid}) = 1
          /\ \A j \in 1 .. Len(equations) :
                equations[j].final_pint = LastPintOf(equations[j].pktid)

\* packet 1 was loaded before packet 0; the equations are those of 0 then 1, each
\* with the pint of its last row
C19_Witness ==
    /\ pc = "done" /\ Len(logs) = 2
    /\ logs[1] = [pktid |-> 1, rows |-> <<LogRow(1), LogRow(2)>>]
    /\ logs[2] = [pktid |-> 0, rows |-> <<LogRow(2), LogRow(1)>>]
    /\ Len(equations) = 2
    /\ equations[1].pktid = 0 /\ equations[1].final_pint = 1
    /\ equations[2].pktid = 1 /\ equations[2].final_pint = 2

-----------------------------------------------------------------------------
(* Properties of the add decision (SpecDecision)                           *)

\* C26 (SpecDecision): for 32-bit h and a, _p4_add_decision(h, a) is true if and only
\* if h < a as unsigned integers, so decoding.py takes the ADD branch exactly when the
\* test hash_id < add_thr of decoding_murmur.py does.
C26_AddIsUnsignedLess ==
    /\ decP # NoDecisionP => ((decP.add = "T") <=> (Off(hash_id) < Off(add_thr)))
    /\ (decP # NoDecisionP /\ decM # "") => ((decP.add = "T") <=> (decM = "ADD"))

\* h = 0x7FFFFFFF and a = 0x80000000: h < a unsigned although h > a as signed values,
\* and both decoders have taken ADD
C26_Witness ==
    /\ hash_id = <<2 ^ 15 - 1, Half - 1>> /\ add_thr = <<2 ^ 15, 0>>
    /\ decP # NoDecisionP /\ decP.add = "T" /\ decM = "ADD"

-----------------------------------------------------------------------------
(* Properties of the elimination (Spec)                                    *)

\* the bit-planes a solve eliminated: all of them, or those up to the one it failed in
PlanesReached == {b \in 0 .. (IdBits - 1) : warned = NoRow \/ b <= warned}

\* the columns that have a pivot
PivotCols(st, k) == {c \in 0 .. (k - 1) : st.pivot_row_for_col[c] # NoRow}

\* XOR of bit b of the accumulators of the equations S
XorOfRhs(eqs, S, b) == Cardinality({j \in S : Bit(eqs[j].final_pint, b) = 1}) % 2

\* C22 (Spec): after the elimination loop of every bit-plane of a solve, a column that
\* has a pivot has its bit set in its pivot row and in no other row, the pivot rows
\* are 0, 1, 2, ... in increasing order of column, every row at or after the final
\* row pointer has an all-zero mask, and every row is the XOR of a set of input
\* equations in its mask and in its right-hand-side bit alike.
C22_FullyReduced ==
    (Solved /\ Len(equations) >= 1) =>
        \A b \in PlanesReached :
            LET st == PlaneAfterElimination(equations, num_hops, b)
                m == Len(equations)
            IN  /\ \A c \in PivotCols(st, num_hops) :
                      /\ \A r \in 0 .. (m - 1) :
                            (c \in st.A[r]) <=> (r = st.pivot_row_for_col[c])
                      /\ st.pivot_row_for_col[c]
                            = Cardinality({d \in PivotCols(st, num_hops) : d < c})
                /\ st.row = Cardinality(PivotCols(st, num_hops))
                /\ \A r \in st.row .. (m - 1) : st.A[r] = {}
                /\ \A r \in 0 .. (m - 1) :
                      \E S \in SUBSET (1 .. m) :
                          /\ st.A[r] = XorOfRows(equations, num_hops, S)
                          /\ st.y[r] = XorOfRhs(equations, S, b)

\* the rows {1} and {0, 1}: the second is swapped into row 0 and column 1 is then
\* eliminated from it, above its pivot, with the right-hand side following
C22_Witness ==
    /\ Solved /\ num_hops = 2 /\ Len(equations) = 2
    /\ equations[1].xor_set = {1} /\ equations[2].xor_set = {0, 1}
    /\ equations[1].final_pint = 1 /\ equations[2].final_pint = 2
    /\ PlaneAfterElimination(equations, 2, 0).A = (0 :> {0} @@ 1 :> {1})
    /\ PlaneAfterElimination(equations, 2, 0).y = (0 :> 1 @@ 1 :> 1)
    /\ PlaneAfterElimination(equations, 2, 1).y = (0 :> 1 @@ 1 :> 0)
    /\ PlaneAfterElimination(equations, 2, 0).row = 2

\* the equations with every accumulator replaced by 0
ZeroRhs(eqs) == [j \in 1 .. Len(eqs) |-> [eqs[j] EXCEPT !.final_pint = 0]]

\* C23 (Spec): in every bit-plane of a solve the pivots (columns and rows) are those
\* the masks alone give, whatever the right-hand sides; and on success a hop without
\* a pivot is returned as 0 while a hop with a pivot has, as bit b of its identifier,
\* the right-hand-side bit of its pivot row in plane b.
C23_SamePivotsZeroFill ==
    (Solved /\ Len(equations) >= 1) =>
        /\ \A b \in PlanesReached :
              /\ PlaneAfterElimination(equations, num_hops, b).pivot_row_for_col
                    = PlaneAfterElimination(ZeroRhs(equations), num_hops, 0).pivot_row_for_col
              /\ PivotCols(PlaneAfterElimination(equations, num_hops, b), num_hops)
                    = PivotCols(PlaneAfterElimination(equations, num_hops, 0), num_hops)
        /\ switch_ids.none = FALSE =>
              \A i \in 0 .. (num_hops - 1) :
                  IF i \in PivotCols(PlaneAfterElimination(equations, num_hops, 0), num_hops)
                  THEN \A b \in 0 .. (IdBits - 1) :
                          Bit(switch_ids.ids[i], b)
                            = PlaneAfterElimination(equations, num_hops, b).y[
                                PlaneAfterElimination(equations, num_hops, b).pivot_row_for_col[i]]
                  ELSE switch_ids.ids[i] = 0

\* two equations over hop 1 alone: hop 0 has no pivot and is returned as 0, hop 1 has
\* its pivot in row 0 and gets both bits of the accumulator
C23_Witness ==
    /\ Solved /\ num_hops = 2 /\ Len(equations) = 2
    /\ equations[1].xor_set = {1} /\ equations[2].xor_set = {1}
    /\ equations[1].final_pint = 3 /\ equations[2].final_pint = 3
    /\ PivotCols(PlaneAfterElimination(equations, 2, 1), 2) = {1}
    /\ switch_ids.none = FALSE
    /\ switch_ids.ids[0] = 0 /\ switch_ids.ids[1] = 3

\* the orders a list of m equations can be handed over in
Orders(m) ==
    {p \in [1 .. m -> 1 .. m] : \A i, j \in 1 .. m : p[i] = p[j] => i = j}

\* the equations in the order p
Permuted(eqs, p) == [j \in 1 .. Len(eqs) |-> eqs[p[j]]]

\* C24 (Spec): solving the same equations in any other order fails when this solve
\* failed and otherwise returns the identical identifier vector from the same pivot
\* columns, also when the masks do not have rank num_hops.
C24_OrderIndependent ==
    (Solved /\ Len(equations) >= 1) =>
        \A p \in Orders(Len(equations)) :
            /\ solve_switch_ids(Permuted(equations, p), num_hops, IdBits).none
                  = switch_ids.none
            /\ solve_switch_ids(Permuted(equations, p), num_hops, IdBits).ids
                  = switch_ids.ids
            /\ PivotCols(PlaneAfterElimination(Permuted(equations, p), num_hops, 0), num_hops)
                  = PivotCols(PlaneAfterElimination(equations, num_hops, 0), num_hops)

\* an underdetermined system whose first row has no pivot: solved as given, the row
\* {0, 1} is swapped up; handed over in the other order it is not, and hop 1 is
\* zero-filled either way
C24_Witness ==
    /\ Solved /\ num_hops = 2 /\ Len(equations) = 2
    /\ equations[1].xor_set = {} /\ equations[2].xor_set = {0, 1}
    /\ equations[1].final_pint = 0 /\ equations[2].final_pint = 3
    /\ ~FullRank(equations, 2)
    /\ switch_ids.none = FALSE /\ switch_ids.ids = (0 :> 3 @@ 1 :> 0)
    /\ solve_switch_ids(<<equations[2], equations[1]>>, 2, IdBits).ids = switch_ids.ids

-----------------------------------------------------------------------------
(* Properties of decoding a generation run (SpecGen)                       *)

\* C25 (SpecGen): with at least one packet, solving the equations a generation run
\* produced reports no inconsistency and returns a vector, and on every generated
\* equation that vector and the ground-truth identifiers both XOR to its final_pint.
C25_GeneratedNeverInconsistent ==
    (Solved /\ Len(equations) >= 1) =>
        /\ switch_ids.none = FALSE
        /\ warned = NoRow
        /\ out = "path_complete"
        /\ DOMAIN switch_ids.ids = 0 .. (num_hops - 1)
        /\ Satisfies(switch_ids.ids, equations, num_hops, IdBits)
        /\ Satisfies(switch_id, equations, num_hops, IdBits)

\* two packets that both folded hops 0 and 1: the solve returns <<3, 0>>, not the
\* identifiers <<1, 2>> of the run, and both XOR to the accumulator 3
C25_Witness ==
    /\ Solved /\ num_hops = 2 /\ Len(equations) = 2
    /\ switch_id = (0 :> 1 @@ 1 :> 2)
    /\ equations[1].xor_set = {0, 1} /\ equations[2].xor_set = {0, 1}
    /\ equations[1].final_pint = 3 /\ equations[2].final_pint = 3
    /\ switch_ids.none = FALSE /\ switch_ids.ids = (0 :> 3 @@ 1 :> 0)

-----------------------------------------------------------------------------
(* Properties of the hop order (SpecSim)                                   *)

\* the hops at which the iterations t took the branch d
HopsTaking(t, d) == {h \in 0 .. (Len(t) - 1) : t[h + 1] = d}

\* the hop of the last REPLACE of t with the hops that took ADD after it; every hop
\* that took ADD when t has no REPLACE
FoldedHops(t) ==
    IF HopsTaking(t, "REPLACE") = {} THEN HopsTaking(t, "ADD")
    ELSE {h \in HopsTaking(t, "REPLACE") : \A q \in HopsTaking(t, "REPLACE") : q <= h}
         \cup {h \in HopsTaking(t, "ADD") : \E r \in HopsTaking(t, "REPLACE") :
                   /\ r < h
                   /\ \A q \in HopsTaking(t, "REPLACE") : q <= r}

\* C27 (SpecSim): in every simulator xor_set holds only hops below the hop being
\* processed, so an ADD finds its hop absent and inserts it; at every point, and in
\* the equation emitted, xor_set lies in [0, num_hops) and is the hop of the last
\* REPLACE (if any) together with the hops that took ADD after it.
C27_AddAlwaysInserts ==
    /\ \A i \in xor_set : 0 <= i /\ i < hopid /\ i < num_hops
    /\ last.act = "ADD" =>
          /\ last.hop \notin last.set
          /\ xor_set = last.set \cup {last.hop}
    /\ prog \in Programs => xor_set = FoldedHops(taken)
    /\ \A j \in 1 .. Len(equations) :
          /\ equations[j].xor_set \subseteq 0 .. (num_hops - 1)
          /\ prog \in Programs => equations[j].xor_set = FoldedHops(taken)

\* decoding.py replaced at hop 0 and added at hop 1: hop 1 was inserted next to hop 0
\* and the equation carries both
C27_Witness ==
    /\ prog = "decoding" /\ pc = "done" /\ num_hops = 2
    /\ taken = <<"REPLACE", "ADD">>
    /\ last.act = "ADD" /\ last.hop = 1 /\ last.set = {0}
    /\ xor_set = {0, 1}
    /\ Len(equations) = 1 /\ equations[1].xor_set = {0, 1}

-----------------------------------------------------------------------------
(* Properties of re-simulation (SpecSim)                                   *)

\* C21 as stated (SpecSim): what a hop of generation mode leaves in xor_set and
\* xor_degree is the same for every identifier vector and every accumulator, and is
\* what the hop of decode mode (reconstruct_xor_sets) leaves from the same xor_set and
\* xor_degree on the same branch, so that both read the same cell at the next hop
\* (idx = hopid * max_degree + xor_degree) and decode mode recovers the xor_set
\* generation mode folded.
C21_DecodeRecoversGenerated ==
    (prog = "decoding_murmur" /\ last.act \in Actions) =>
        /\ \A ids \in [0 .. (num_hops - 1) -> IdSamples], p \in IdSamples :
              SimulateHop([xor_set |-> last.set, pint |-> p], last.hop, last.act, ids).xor_set
                = xor_set
        /\ xor_set = ReconstructHop(last.set, last.hop, last.act)
        /\ xor_degree = ReconstructDegree(last.deg, last.act, apa.max_degree)

====
